---- MODULE Spec2Model ----
(***************************************************************************)
(* Model of efficiency.py: the module body (the launcher) creates and      *)
(* starts two threads, t1 running this() and t2 running that(); each       *)
(* function prints a start line, calls time.sleep and prints a completion  *)
(* line.                                                                   *)
(*                                                                         *)
(* Time is a discrete clock `now`, counted in ticks of 1/TicksPerUnit of   *)
(* a second.  time.sleep(d) returns no earlier than d seconds after the    *)
(* call; it may return later, and any statement may be delayed by the      *)
(* scheduler.  `slack` measures that delay: it counts the ticks that       *)
(* passed while some statement could have run (the launcher was not at     *)
(* the end of the script, or a thread was not blocked inside its sleep).   *)
(* print(s) is one atomic append of the line s to the output stream.       *)
(***************************************************************************)
EXTENDS Integers, Sequences, FiniteSets

\* Clock resolution: ticks per second.
TicksPerUnit == 4
\* The most ticks of scheduler delay a run may accumulate.
MaxSlack == 5

Threads == {"t1", "t2"}
Units == {"this", "that"}

StartMarker(f) == IF f = "this" THEN "Starting this..." ELSE "Starting that..."
DoneMarker(f) == IF f = "this" THEN "Did this!" ELSE "Did that!"
\* Variant: that() sleeps as long as this() (the sleep copied unchanged).
Delay_same(f) == 2

Delay(f) == IF f = "this" THEN 2 ELSE 3

\* Variant: the threads are created with daemon=True.
Daemon_set(t) == TRUE

\* Thread(target=...) leaves daemon at its default, inherited from the main thread.
Daemon(t) == FALSE

VARIABLES
    lpc,      \* the launcher's position: the line of the script it executes next
    target,   \* target[t]: the function bound to thread t, "none" before Thread(...)
    pc,       \* pc[t]: the position of thread t
    wake,     \* wake[t]: the clock value before which t's sleep does not return
    now,      \* the clock
    slack,    \* ticks that passed while a statement could have run
    out,      \* standard output: the lines printed, each with the clock at its print
    naps,     \* naps[t]: how many times thread t has entered time.sleep
    exited    \* the interpreter has exited

vars == <<lpc, target, pc, wake, now, slack, out, naps, exited>>

Init ==
    /\ lpc = "l15"
    /\ target = [t \in Threads |-> "none"]
    /\ pc = [t \in Threads |-> "none"]
    /\ wake = [t \in Threads |-> 0]
    /\ now = 0
    /\ slack = 0
    /\ out = << >>
    /\ naps = [t \in Threads |-> 0]
    /\ exited = FALSE

Line(s) == [text |-> s, at |-> now]

----------------------------------------------------------------------------
(* The launcher: lines 15-19 of the script.                                *)

\* Variant: constructing the thread already runs it.
Create_running(t, f, from, to) ==
    /\ lpc = from
    /\ lpc' = to
    /\ target' = [target EXCEPT ![t] = f]
    /\ pc' = [pc EXCEPT ![t] = "start"]
    /\ UNCHANGED <<wake, now, slack, out, naps, exited>>

\* t = Thread(target=f)
Create(t, f, from, to) ==
    /\ lpc = from
    /\ lpc' = to
    /\ target' = [target EXCEPT ![t] = f]
    /\ pc' = [pc EXCEPT ![t] = "created"]
    /\ UNCHANGED <<wake, now, slack, out, naps, exited>>

\* t.start(): the thread becomes runnable at the first statement of its target
StartThread(t, from, to) ==
    /\ lpc = from
    /\ pc[t] = "created"
    /\ lpc' = to
    /\ pc' = [pc EXCEPT ![t] = "start"]
    /\ UNCHANGED <<target, wake, now, slack, out, naps, exited>>

CreateT1 == Create("t1", "this", "l15", "l16")
StartT1 == StartThread("t1", "l16", "l18")
\* Variant: the second thread is bound to this() again.
CreateT2_sameTarget == Create("t2", "this", "l18", "l19")

CreateT2 == Create("t2", "that", "l18", "l19")
\* Variant: the launcher joins t1 before it starts t2.
StartT2_afterJoin == StartThread("t2", "l19", "end") /\ pc["t1"] = "done"

\* Variant: the launcher skips t2.start().
StartT2_notStarted ==
    /\ lpc = "l19"
    /\ lpc' = "end"
    /\ UNCHANGED <<target, pc, wake, now, slack, out, naps, exited>>

StartT2 == StartThread("t2", "l19", "end")

Launcher == CreateT1 \/ StartT1 \/ CreateT2 \/ StartT2

----------------------------------------------------------------------------
(* The thread bodies: this() and that().                                   *)

\* Variant: the first print writes the completion line.
PrintStart_wrongMarker(t) ==
    /\ pc[t] = "start"
    /\ out' = Append(out, Line(DoneMarker(target[t])))
    /\ pc' = [pc EXCEPT ![t] = "sleep"]
    /\ UNCHANGED <<lpc, target, wake, now, slack, naps, exited>>

\* Variant: t2 may not print before t1 has printed.
PrintStart_ordered(t) ==
    /\ pc[t] = "start"
    /\ t = "t2" => pc["t1"] # "start"
    /\ out' = Append(out, Line(StartMarker(target[t])))
    /\ pc' = [pc EXCEPT ![t] = "sleep"]
    /\ UNCHANGED <<lpc, target, wake, now, slack, naps, exited>>

\* print("Starting ...")
PrintStart(t) ==
    /\ pc[t] = "start"
    /\ out' = Append(out, Line(StartMarker(target[t])))
    /\ pc' = [pc EXCEPT ![t] = "sleep"]
    /\ UNCHANGED <<lpc, target, wake, now, slack, naps, exited>>

\* Variant: a thread may not enter its sleep while another thread sleeps.
Sleep_exclusive(t) ==
    /\ pc[t] = "sleep"
    /\ \A o \in Threads \ {t} : pc[o] # "sleeping"
    /\ wake' = [wake EXCEPT ![t] = now + TicksPerUnit * Delay(target[t])]
    /\ naps' = [naps EXCEPT ![t] = @ + 1]
    /\ pc' = [pc EXCEPT ![t] = "sleeping"]
    /\ UNCHANGED <<lpc, target, now, slack, out, exited>>

\* Variant: a sleep starts counting only when the other thread's sleep ends.
Sleep_serial(t) ==
    /\ pc[t] = "sleep"
    /\ LET o == CHOOSE x \in Threads : x # t
           from == IF pc[o] = "sleeping" /\ wake[o] > now THEN wake[o] ELSE now
       IN  wake' = [wake EXCEPT ![t] = from + TicksPerUnit * Delay(target[t])]
    /\ naps' = [naps EXCEPT ![t] = @ + 1]
    /\ pc' = [pc EXCEPT ![t] = "sleeping"]
    /\ UNCHANGED <<lpc, target, now, slack, out, exited>>

\* Variant: the threads share one wake-up deadline.
Sleep_sharedDeadline(t) ==
    /\ pc[t] = "sleep"
    /\ wake' = [o \in Threads |-> now + TicksPerUnit * Delay(target[t])]
    /\ naps' = [naps EXCEPT ![t] = @ + 1]
    /\ pc' = [pc EXCEPT ![t] = "sleeping"]
    /\ UNCHANGED <<lpc, target, now, slack, out, exited>>

\* time.sleep(d) is called: the thread blocks
Sleep(t) ==
    /\ pc[t] = "sleep"
    /\ wake' = [wake EXCEPT ![t] = now + TicksPerUnit * Delay(target[t])]
    /\ naps' = [naps EXCEPT ![t] = @ + 1]
    /\ pc' = [pc EXCEPT ![t] = "sleeping"]
    /\ UNCHANGED <<lpc, target, now, slack, out, exited>>

\* Variant: the sleep may return at once.
Wake_early(t) ==
    /\ pc[t] = "sleeping"
    /\ pc' = [pc EXCEPT ![t] = "finish"]
    /\ UNCHANGED <<lpc, target, wake, now, slack, out, naps, exited>>

\* Variant: after waking the thread goes back to sleep once more.
Wake_retry(t) ==
    /\ pc[t] = "sleeping"
    /\ now >= wake[t]
    /\ pc' = [pc EXCEPT ![t] = IF naps[t] < 2 THEN "sleep" ELSE "finish"]
    /\ UNCHANGED <<lpc, target, wake, now, slack, out, naps, exited>>

\* time.sleep(d) returns: not before d seconds have passed
Wake(t) ==
    /\ pc[t] = "sleeping"
    /\ now >= wake[t]
    /\ pc' = [pc EXCEPT ![t] = "finish"]
    /\ UNCHANGED <<lpc, target, wake, now, slack, out, naps, exited>>

\* print("Did ...!") and the function returns
PrintDone(t) ==
    /\ pc[t] = "finish"
    /\ out' = Append(out, Line(DoneMarker(target[t])))
    /\ pc' = [pc EXCEPT ![t] = "done"]
    /\ UNCHANGED <<lpc, target, wake, now, slack, naps, exited>>

ThreadStep(t) == PrintStart(t) \/ Sleep(t) \/ Wake(t) \/ PrintDone(t)

----------------------------------------------------------------------------
(* The interpreter and the clock.                                          *)

\* At the end of the script the interpreter joins every non-daemon thread
\* that was started, then exits.
Shutdown ==
    /\ lpc = "end"
    /\ ~exited
    /\ \A t \in Threads : Daemon(t) \/ pc[t] \in {"none", "created", "done"}
    /\ exited' = TRUE
    /\ UNCHANGED <<lpc, target, pc, wake, now, slack, out, naps>>

Runnable(t) ==
    \/ pc[t] \in {"start", "sleep", "finish"}
    \/ pc[t] = "sleeping" /\ now >= wake[t]

AnyRunnable == lpc # "end" \/ \E t \in Threads : Runnable(t)

Blocked(t) == pc[t] = "sleeping" /\ now < wake[t]

\* The clock advances.  A tick taken while a statement could have run is
\* scheduler delay and is counted in slack, which is capped; a tick taken
\* while every live thread is blocked in its sleep is not.
Tick ==
    /\ ~exited
    /\ AnyRunnable \/ \E t \in Threads : Blocked(t)
    /\ AnyRunnable => slack < MaxSlack
    /\ now' = now + 1
    /\ slack' = IF AnyRunnable THEN slack + 1 ELSE slack
    /\ UNCHANGED <<lpc, target, pc, wake, out, naps, exited>>

Next ==
    \/ CreateT1
    \/ StartT1
    \/ CreateT2
    \/ StartT2
    \/ \E t \in Threads : PrintStart(t)
    \/ \E t \in Threads : Sleep(t)
    \/ \E t \in Threads : Wake(t)
    \/ \E t \in Threads : PrintDone(t)
    \/ Shutdown
    \/ Tick

Spec == Init /\ [][Next]_vars

\* Fair scheduling: the launcher and every thread keep running while they
\* can, the clock keeps advancing, and the interpreter exits when it can.
FairSpec ==
    /\ Spec
    /\ WF_vars(Launcher)
    /\ \A t \in Threads : WF_vars(ThreadStep(t))
    /\ WF_vars(Tick)
    /\ WF_vars(Shutdown)

----------------------------------------------------------------------------
(* Reading the output stream.                                              *)

Positions(m) == {i \in 1..Len(out) : out[i].text = m}
Printed(m) == Positions(m) # {}
Count(m) == Cardinality(Positions(m))
\* the position and the clock value of the first print of m (m printed)
First(m) == CHOOSE i \in Positions(m) : \A j \in Positions(m) : i <= j
At(m) == out[First(m)].at

TypeOK ==
    /\ lpc \in {"l15", "l16", "l18", "l19", "end"}
    /\ target \in [Threads -> Units \cup {"none"}]
    /\ pc \in [Threads -> {"none", "created", "start", "sleep", "sleeping", "finish", "done"}]
    /\ wake \in [Threads -> Nat]
    /\ now \in Nat
    /\ slack \in 0..MaxSlack
    /\ naps \in [Threads -> Nat]
    /\ exited \in BOOLEAN

Finished == lpc = "end" /\ \A t \in Threads : pc[t] = "done"

----------------------------------------------------------------------------
(* The claims.                                                             *)

\* C1: for each unit, every print of its completion marker is preceded in
\* the output by a print of its start marker, under every interleaving.
C1_DoneAfterStart ==
    \A u \in Units : \A i \in Positions(DoneMarker(u)) :
        \E j \in Positions(StartMarker(u)) : j < i

C1_Witness == \A u \in Units : Printed(DoneMarker(u))

\* C2: for each unit, the clock at the print of its completion marker minus
\* the clock at the print of its start marker is at least its delay: 2
\* time-units for this(), 3 for that().
C2_MinDelay ==
    /\ Printed("Did this!") =>
        /\ Printed("Starting this...")
        /\ At("Did this!") - At("Starting this...") >= 2 * TicksPerUnit
    /\ Printed("Did that!") =>
        /\ Printed("Starting that...")
        /\ At("Did that!") - At("Starting that...") >= 3 * TicksPerUnit

C2_Witness ==
    /\ Printed("Did this!") /\ Printed("Did that!")
    /\ At("Did this!") - At("Starting this...") = 2 * TicksPerUnit
    /\ At("Did that!") - At("Starting that...") > 3 * TicksPerUnit

\* C3: each start marker is never printed twice, and in a complete run
\* (the script has ended and both threads have returned) it has been printed
\* exactly once.
C3_StartOnce ==
    \A u \in Units :
        /\ Count(StartMarker(u)) <= 1
        /\ Finished => Count(StartMarker(u)) = 1

C3_Witness == Finished /\ \A u \in Units : Count(StartMarker(u)) = 1

FourLines ==
    /\ Len(out) = 4
    /\ \A u \in Units :
        /\ Count(StartMarker(u)) = 1
        /\ Count(DoneMarker(u)) = 1
        /\ First(StartMarker(u)) < First(DoneMarker(u))

\* C4: under fair scheduling every run eventually has printed exactly the
\* four lines, each once, each unit's start line before its completion
\* line, and the output stays so.
C4_AllFourLines == <>[]FourLines

C4_Witness == FourLines /\ \A t \in Threads : pc[t] = "done"

\* C5: the launcher never waits: as long as the script has not ended, its
\* next statement is enabled whatever the threads are doing.  (The witness
\* is the script ended with both threads still inside their sleep.)
C5_LauncherNeverBlocked == lpc # "end" => ENABLED Launcher

C5_Witness ==
    /\ lpc = "end"
    /\ \A t \in Threads : Blocked(t)
    /\ \A u \in Units : ~Printed(DoneMarker(u))

\* C6: while one thread is in its sleep the other thread's next step is
\* enabled: its start print, its entry into sleep, its return from sleep
\* once its own delay has elapsed, its completion print.
C6_SleepDoesNotBlock ==
    \A t \in Threads : \A o \in Threads \ {t} :
        pc[t] = "sleeping" =>
            /\ pc[o] = "start" => ENABLED PrintStart(o)
            /\ pc[o] = "sleep" => ENABLED Sleep(o)
            /\ (pc[o] = "sleeping" /\ now >= wake[o]) => ENABLED Wake(o)
            /\ pc[o] = "finish" => ENABLED PrintDone(o)

C6_Witness == \A t \in Threads : Blocked(t)

\* C7: the order of the two start lines is open: once both threads are
\* started and neither has printed, either may print first, although t1 was
\* started before t2 was created.  (The witness is the order the launch
\* order does not suggest: 'Starting that...' before 'Starting this...'.)
C7_StartOrderOpen ==
    (\A t \in Threads : pc[t] = "start") =>
        /\ lpc = "end"
        /\ out = << >>
        /\ ENABLED PrintStart("t1")
        /\ ENABLED PrintStart("t2")

C7_Witness ==
    /\ Printed("Starting this...") /\ Printed("Starting that...")
    /\ First("Starting that...") < First("Starting this...")

C7_WitnessThisFirst ==
    /\ Printed("Starting this...") /\ Printed("Starting that...")
    /\ First("Starting this...") < First("Starting that...")

\* m has been printed by `limit` half time-units after launch
ByHalfUnits(m, limit) ==
    /\ Printed(m) => 2 * At(m) <= limit * TicksPerUnit
    /\ ~Printed(m) => 2 * now <= limit * TicksPerUnit

\* C8: the delays overlap: in a run whose scheduler delay stays below 0.5
\* time-units, both start markers and 'Did this!' are printed by 2.5
\* time-units after launch and 'Did that!' by 3.5 time-units.
C8_Overlap ==
    2 * slack < TicksPerUnit =>
        /\ ByHalfUnits("Starting this...", 5)
        /\ ByHalfUnits("Starting that...", 5)
        /\ ByHalfUnits("Did this!", 5)
        /\ ByHalfUnits("Did that!", 7)

C8_Witness ==
    /\ Finished
    /\ slack > 0 /\ 2 * slack < TicksPerUnit
    /\ At("Did that!") > 3 * TicksPerUnit
    /\ At("Did that!") - At("Did this!") < 2 * TicksPerUnit

\* C9: 'Did that!' can be printed before 'Did this!' (the witness), so the
\* usual order is no invariant; it happens only in runs whose scheduler
\* delay is at least the difference of the two delays, one time-unit.
C9_ReversalNeedsSlack ==
    (/\ Printed("Did that!")
     /\ Printed("Did this!") => First("Did that!") < First("Did this!"))
        => slack >= TicksPerUnit

C9_Witness ==
    /\ Printed("Did that!") /\ Printed("Did this!")
    /\ First("Did that!") < First("Did this!")
    /\ First("Starting this...") < First("Starting that...")

Rank(s) ==
    CASE s = "none" -> 0
      [] s = "created" -> 1
      [] s = "start" -> 2
      [] s = "sleep" -> 3
      [] s = "sleeping" -> 4
      [] s = "finish" -> 5
      [] s = "done" -> 6

\* C10: each unit's lifecycle is linear: a thread's position only moves to
\* the next one, it enters its sleep exactly once (never twice, and once by
\* the time it is past the sleep), and a thread that has returned takes no
\* further step and prints nothing more.
C10_LinearLifecycle ==
    /\ [](\A t \in Threads :
            /\ naps[t] <= 1
            /\ naps[t] = 1 <=> pc[t] \in {"sleeping", "finish", "done"})
    /\ [][\A t \in Threads :
            /\ pc'[t] = pc[t] \/ Rank(pc'[t]) = Rank(pc[t]) + 1
            /\ naps'[t] = naps[t] + (IF pc'[t] = "sleeping" /\ pc[t] # "sleeping" THEN 1 ELSE 0)
            /\ pc[t] = "done" =>
                /\ pc'[t] = "done"
                /\ Count(StartMarker(target[t]))' = Count(StartMarker(target[t]))
                /\ Count(DoneMarker(target[t]))' = Count(DoneMarker(target[t]))]_vars

C10_Witness == \A t \in Threads : pc[t] = "done" /\ naps[t] = 1


\* a step of the function running in thread t
UnitStep(t) == pc[t] \in {"start", "sleep", "sleeping", "finish"} /\ pc'[t] # pc[t]

OwnMarkers(t) == {StartMarker(target[t]), DoneMarker(target[t])}

\* C11: the units share no state: a step of one thread's function leaves
\* the other thread's position, target, wake-up deadline, sleep count and
\* printed markers unchanged, and appends to the output nothing or one line
\* that is a marker of its own unit.
C11_NoSharedState ==
    [][\A t \in Threads : UnitStep(t) =>
        /\ \A o \in Threads \ {t} :
            /\ pc'[o] = pc[o]
            /\ target'[o] = target[o]
            /\ wake'[o] = wake[o]
            /\ naps'[o] = naps[o]
            /\ \A m \in OwnMarkers(o) : Positions(m)' = Positions(m)
        /\ \/ out' = out
           \/ \E m \in OwnMarkers(t) : out' = Append(out, [text |-> m, at |-> now])]_vars

C11_Witness ==
    /\ pc["t1"] = "done" /\ Printed("Did this!")
    /\ Blocked("t2") /\ naps["t2"] = 1
    /\ At("Starting that...") < At("Starting this...")
    /\ At("Did this!") > wake["t2"] - TicksPerUnit * 3


\* the launcher has executed t1.start() / t2.start()
T1Started == lpc \in {"l18", "l19", "end"}
T2Started == lpc = "end"

\* C12: a start marker is printed only after the launcher has started the
\* unit's thread: no marker of this() before t1.start(), no marker of
\* that() before t2.start(), hence none of that() before t1.start().
C12_PrintAfterThreadStart ==
    /\ (Printed("Starting this...") \/ Printed("Did this!")) => T1Started
    /\ (Printed("Starting that...") \/ Printed("Did that!")) => T2Started /\ T1Started
    /\ \A t \in Threads : pc[t] \in {"none", "created"} => \A m \in OwnMarkers(t) : ~Printed(m)

\* 'Starting this...' is out while t2 is not yet started
C12_Witness ==
    /\ Printed("Starting this...")
    /\ lpc \in {"l18", "l19"}
    /\ ~Printed("Starting that...")


\* C13: both threads are non-daemon, so the interpreter exits only after
\* both functions have returned: it never has exited with 'Did this!' or
\* 'Did that!' unprinted or a thread unfinished, and under fair scheduling
\* it eventually exits.
C13_ExitAfterBoth ==
    /\ [](exited =>
            /\ Printed("Did this!") /\ Printed("Did that!")
            /\ \A t \in Threads : ~Daemon(t) /\ pc[t] = "done")
    /\ <>exited

C13_Witness == exited /\ FourLines /\ lpc = "end"


====
